---- MODULE Spec2Model ----
(***************************************************************************)
(* Version inventory reconciliation of node-version-switcher.              *)
(*                                                                         *)
(* Backend (Go, app.go): GetInstalledNodeVersions parses the text of       *)
(* `nvm ls`; GetAvailableNodeVersions annotates either the remote catalog  *)
(* (https://nodejs.org/dist/index.json) or the text of `nvm ls available`  *)
(* with the installed set.  Frontend (App.jsx): fetchInstalledVersions and *)
(* fetchAvailableVersions await the bound call, sort with compareVersions  *)
(* and store the list, or record an error message.                         *)
(*                                                                         *)
(* Spec follows one bound call through the backend, over many answers of   *)
(* the external tool and the remote catalog.  SpecUI follows a session of  *)
(* the UI: the mount effect and the click handlers, await by await,        *)
(* against a tool that installs, uninstalls and switches versions.         *)
(*                                                                         *)
(* A Go string is a sequence of one-character strings; every strings.* and *)
(* regexp function the code calls is an operator over such sequences.      *)
(***************************************************************************)
EXTENDS Integers, Sequences, FiniteSets, TLC

VARIABLES
    pc,                 \* position of the one query in flight
    op,                 \* the bound method the UI called
    calls,              \* external commands and requests issued so far, in order
    http,               \* outcome of http.Get / ReadAll / Unmarshal
    availText,          \* combined output of `nvm ls available`
    lsText,             \* combined output of `nvm ls`
    installedRet,       \* what the (possibly nested) GetInstalledNodeVersions gave
    annotated,          \* which annotation loop ran: "none", "catalog", "text"
    ret,                \* return value of the bound method
    argVersion,         \* argument of InstallNodeVersion, UninstallNodeVersion, SwitchNodeVersion
    runs,               \* runs of the external tool: arguments, combined output, error
    message,            \* string an install, uninstall or switch call returned
    installedVersions,  \* React state
    availableVersions,  \* React state
    result,             \* React state: the message line
    loadingVersion,     \* React state: version of the action in flight, or null
    loadingAction,      \* React state: 'install', 'uninstall', 'switch' or ''
    handlers,           \* the async functions of App.jsx started so far
    nvmInstalled,       \* versions the external tool has installed
    nvmCurrent,         \* version the external tool has in use, or none
    body,               \* resp.Body of the catalog request: "none", "open", "closed"
    mu,                 \* a.mu: the goroutine holding it for writing, those for reading
    gpc,                \* position of each goroutine of the backend
    gret,               \* where each goroutine continues after the function it is in
    ctxState,           \* a.ctx and a.cancel: "unset", "live", "cancelled"
    age,                \* minutes since a.lastActive
    idle,               \* minutes since startup or the last run of the external tool
    tick,               \* a tick waits in ticker.C
    enableLogs,         \* a.enableLogs
    healthy,            \* what the last checkHealth() returned
    idleSeen,           \* idle when checkHealth() last looked
    reloads,            \* calls of runtime.WindowReload
    trayAlive,          \* the tray menu exists
    quitters,           \* position of the goroutine of each click on the quit item
    cleaners,           \* position of the goroutine each quitSystray started
    quitChan,           \* state.quitChan: "open", "closed"
    process,            \* the process: "running", "quitting", "exited", "panicked"
    window              \* the application window: "shown", "hidden"

\* state of the user session: the handlers in flight and the external tool
sessionVars == <<loadingVersion, loadingAction, handlers, nvmInstalled, nvmCurrent>>

\* state of the backend's goroutines around a.mu and the health check
appVars == <<mu, gpc, gret, ctxState, age, idle, tick, enableLogs, healthy, idleSeen,
             reloads>>

\* state of the tray menu handlers
trayVars == <<trayAlive, quitters, cleaners, quitChan, process, window>>

\* state of the one bound call followed through the backend
callVars == <<pc, op, calls, http, availText, lsText, installedRet, annotated, ret,
              argVersion, runs, message, body>>

vars == <<callVars, installedVersions, availableVersions, result, sessionVars, appVars,
          trayVars>>

---------------------------------------------------------------------------
(* Bounds of the model *)

\* pieces concatenated into one `nvm ls` text
MaxLsPieces == 4
\* pieces concatenated into one `nvm ls available` text
MaxAvailPieces == 3
\* records of one remote catalog document
MaxCatalog == 2
\* installed versions in a listing given to the sort
MaxSortLen == 3
\* buttons the user clicks in one session
MaxClicks == 2
\* bound calls that run the external tool concurrently
MaxCalls == 1
\* minutes the clocks of the health check count up to
MaxMinutes == 5
\* clicks on the quit item of the tray menu
MaxQuitClicks == 2
\* reloads of the window the model counts
MaxReloads == 1

---------------------------------------------------------------------------
(* Characters and the Go strings package *)

Digits == {"0", "1", "2", "3", "4", "5", "6", "7", "8", "9"}

Letters == {"a", "b", "c", "d", "e", "f", "g", "h", "i", "j", "k", "l", "m",
            "n", "o", "p", "q", "r", "s", "t", "u", "v", "w", "x", "y", "z",
            "A", "B", "C", "D", "E", "F", "G", "H", "I", "J", "K", "L", "M",
            "N", "O", "P", "Q", "R", "S", "T", "U", "V", "W", "X", "Y", "Z"}

\* unicode.IsSpace, restricted to the characters of the model's alphabet
SpaceChars == {" ", "\t", "\n", "\r"}

\* the regexp class \w
WordChars == Digits \cup Letters \cup {"_"}

IsSpace(c) == c \in SpaceChars

RECURSIVE Flatten(_)
Flatten(ss) == IF ss = <<>> THEN <<>> ELSE Head(ss) \o Flatten(Tail(ss))

\* strings.Index: 0-based index of the first occurrence of sub in s, or -1
Index(s, sub) ==
    LET hits == {i \in 0..(Len(s) - Len(sub)) : SubSeq(s, i + 1, i + Len(sub)) = sub}
    IN  IF hits = {} THEN -1 ELSE CHOOSE i \in hits : \A j \in hits : i <= j

Contains(s, sub) == Index(s, sub) >= 0

HasPrefix(s, p) == Len(s) >= Len(p) /\ SubSeq(s, 1, Len(p)) = p

RECURSIVE TrimLeft(_)
TrimLeft(s) == IF s # <<>> /\ IsSpace(Head(s)) THEN TrimLeft(Tail(s)) ELSE s

RECURSIVE TrimRight(_)
TrimRight(s) ==
    IF s # <<>> /\ IsSpace(s[Len(s)]) THEN TrimRight(SubSeq(s, 1, Len(s) - 1)) ELSE s

TrimSpace(s) == TrimRight(TrimLeft(s))

\* strings.Split(s, sep) for a non-empty sep: never empty, Split("") = [""]
RECURSIVE Split(_, _)
Split(s, sep) ==
    LET i == Index(s, sep)
    IN  IF i < 0 THEN <<s>>
        ELSE <<SubSeq(s, 1, i)>> \o Split(SubSeq(s, i + Len(sep) + 1, Len(s)), sep)

\* strings.Replace(s, old, "", 1): the first occurrence of old is removed
ReplaceFirst(s, old) ==
    LET i == Index(s, old)
    IN  IF i < 0 THEN s ELSE SubSeq(s, 1, i) \o SubSeq(s, i + Len(old) + 1, Len(s))

\* length of the longest prefix of s whose characters are all in cs
RECURSIVE Span(_, _)
Span(s, cs) == IF s # <<>> /\ Head(s) \in cs THEN 1 + Span(Tail(s), cs) ELSE 0

\* strings.Fields: the maximal runs of non-space characters
RECURSIVE Fields(_)
Fields(s) ==
    LET t == TrimLeft(s)
        n == Span(t, {t[k] : k \in 1..Len(t)} \ SpaceChars)
    IN  IF t = <<>> THEN <<>>
        ELSE <<SubSeq(t, 1, n)>> \o Fields(SubSeq(t, n + 1, Len(t)))

---------------------------------------------------------------------------
(* Go slices and errors *)

\* `var versions []T` is the nil slice; append makes it non-nil
NilSlice == [isNil |-> TRUE, elems |-> <<>>]

AppendSlice(s, x) == [isNil |-> FALSE, elems |-> Append(s.elems, x)]

\* an error value is the sequence of the fragments of its message; nil is <<>>
NilErr == <<>>

---------------------------------------------------------------------------
(* Literals of app.go *)

Star == <<"*">>
Arrow == <<"-", ">">>
Default == <<"d", "e", "f", "a", "u", "l", "t">>
System == <<"s", "y", "s", "t", "e", "m">>
Hyphen == <<"-">>
CURRENT == <<"C", "U", "R", "R", "E", "N", "T">>
Newline == <<"\n">>
Unknown == <<"u", "n", "k", "n", "o", "w", "n">>

---------------------------------------------------------------------------
(* executeNvmCommand and the three actions, app.go 184-254 *)

\* what executeNvmCommand returns: the combined output and the error
Cmd(output, err) == [output |-> output, err |-> err]

\* a failed run is run again
executeNvmCommandRetrying(log, args, cmd) ==
    IF cmd.err # NilErr
    THEN log \o <<[args |-> args, output |-> cmd.output, err |-> cmd.err],
                  [args |-> args, output |-> cmd.output, err |-> cmd.err]>>
    ELSE Append(log, [args |-> args, output |-> cmd.output, err |-> cmd.err])

\* lines 184-208: `cmd /c nvm args...` runs once, whatever it reports; log is
\* the runs so far
executeNvmCommand(log, args, cmd) ==
    Append(log, [args |-> args, output |-> cmd.output, err |-> cmd.err])

ActionMethods == {"InstallNodeVersion", "UninstallNodeVersion", "SwitchNodeVersion"}

\* the first argument each method gives to executeNvmCommand
Verb(method) ==
    CASE method = "InstallNodeVersion" -> "install"
      [] method = "UninstallNodeVersion" -> "uninstall"
      [] method = "SwitchNodeVersion" -> "use"

ErrorText(method) ==
    CASE method = "InstallNodeVersion" -> "Error installing Node.js "
      [] method = "UninstallNodeVersion" -> "Error uninstalling Node.js "
      [] method = "SwitchNodeVersion" -> "Error switching to Node.js "

SuccessText(method) ==
    CASE method = "InstallNodeVersion" -> "Successfully installed Node.js "
      [] method = "UninstallNodeVersion" -> "Successfully uninstalled Node.js "
      [] method = "SwitchNodeVersion" -> "Successfully switched to Node.js "

\* lines 215-222, 230-237, 245-253: the string the method returns, given what
\* executeNvmCommand returned
actionMessage(method, v, cmd) ==
    IF cmd.err # NilErr
    THEN <<ErrorText(method)>> \o v \o <<": ">> \o cmd.output
    ELSE <<SuccessText(method)>> \o v

---------------------------------------------------------------------------
(* GetInstalledNodeVersions, app.go 258-299 *)

\* line 270: the lines the loop skips (line is already trimmed)
IsNoiseLine(line) ==
    \/ line = <<>>
    \/ Contains(line, Arrow)
    \/ Contains(line, Default)
    \/ Contains(line, System)

\* the marker looked for anywhere in the line
IsCurrentOfAnywhere(line) == Contains(line, Star)

\* line 275: the current-version marker
IsCurrentOf(line) == HasPrefix(line, Star)

\* lines 276-278: the line the version token is taken from
StripMarker(line) ==
    IF IsCurrentOf(line) THEN TrimSpace(ReplaceFirst(line, Star)) ELSE line

\* lines 268-283: the loop over the lines; strings.Fields(line)[0] panics with
\* "index out of range" when no field is left
RECURSIVE installedLoop(_, _)
installedLoop(lines, versions) ==
    IF lines = <<>> THEN [panicked |-> FALSE, versions |-> versions]
    ELSE LET line == TrimSpace(Head(lines))
         IN  IF IsNoiseLine(line) THEN installedLoop(Tail(lines), versions)
             ELSE LET fields == Fields(StripMarker(line))
                  IN  IF fields = <<>>
                      THEN [panicked |-> TRUE, versions |-> versions]
                      ELSE installedLoop(Tail(lines),
                               AppendSlice(versions,
                                   [Version |-> fields[1],
                                    IsCurrent |-> IsCurrentOf(line)]))

\* the bound method, given what executeNvmCommand("ls") returned
GetInstalledNodeVersions(cmd) ==
    IF cmd.err # NilErr
    THEN [kind |-> "return", versions |-> NilSlice,
          err |-> <<"Error fetching installed versions: ">> \o cmd.err]
    ELSE LET r == installedLoop(Split(cmd.output, Newline), NilSlice)
         IN  IF r.panicked
             THEN [kind |-> "panic", versions |-> NilSlice, err |-> NilErr]
             ELSE [kind |-> "return", versions |-> r.versions, err |-> NilErr]

---------------------------------------------------------------------------
(* GetAvailableNodeVersions, app.go 305-423 *)

IsWordAt(s, k) == k >= 1 /\ k <= Len(s) /\ s[k] \in WordChars

\* the regexp assertion \b between s[k] and s[k+1]
WordBoundary(s, k) == IsWordAt(s, k) # IsWordAt(s, k + 1)

DigitsFrom(s, i) == Span(SubSeq(s, i, Len(s)), Digits)

\* \d+\.\d+\.\d+ tried at position i with greedy digit runs: the index of the
\* last character matched, or 0
PatternEndAt(s, i) ==
    LET a == DigitsFrom(s, i)
        j == i + a + 1
        b == DigitsFrom(s, j)
        k == j + b + 1
        c == DigitsFrom(s, k)
    IN  IF /\ a > 0 /\ i + a <= Len(s) /\ s[i + a] = "."
           /\ b > 0 /\ j + b <= Len(s) /\ s[j + b] = "."
           /\ c > 0
        THEN k + c - 1 ELSE 0

\* the pattern with no \b assertions
UnanchoredEndAt(s, i) == PatternEndAt(s, i)

\* line 380: versionRegex = \b\d+\.\d+\.\d+\b tried at position i. A shorter
\* digit run never helps: it is followed by a digit, which is neither "." nor
\* a word boundary.
versionRegexEndAt(s, i) ==
    LET e == PatternEndAt(s, i)
    IN  IF e > 0 /\ WordBoundary(s, i - 1) /\ WordBoundary(s, e) THEN e ELSE 0

\* line 400: versionRegex.FindAllString(line, -1), leftmost non-overlapping
RECURSIVE FindAllFrom(_, _)
FindAllFrom(s, i) ==
    IF i > Len(s) THEN <<>>
    ELSE LET e == versionRegexEndAt(s, i)
         IN  IF e > 0 THEN <<SubSeq(s, i, e)>> \o FindAllFrom(s, e + 1)
             ELSE FindAllFrom(s, i + 1)

FindAllString(s) == FindAllFrom(s, 1)

\* line 396: the lines the text loop skips (line is already trimmed)
IsSkippedLine(line) ==
    \/ line = <<>>
    \/ Contains(line, CURRENT)
    \/ Contains(line, Hyphen)

\* lines 330-333 and 387-390
installedMap(installed) == {installed[k].Version : k \in 1..Len(installed)}

\* the installed map never consulted
StatusOfNeverInstalled(map, version) == "Not Installed"

\* lines 336-339 and 402-405
StatusOf(map, version) == IF version \in map THEN "Installed" ELSE "Not Installed"

\* a version already listed is not appended again
RECURSIVE appendMatchesOnce(_, _, _)
appendMatchesOnce(versions, matches, map) ==
    IF matches = <<>> THEN versions
    ELSE appendMatchesOnce(
             IF \E k \in 1..Len(versions.elems) : versions.elems[k].Version = Head(matches)
             THEN versions
             ELSE AppendSlice(versions,
                      [Version |-> Head(matches),
                       Status |-> StatusOf(map, Head(matches)),
                       NpmVersion |-> Unknown]),
             Tail(matches), map)

\* lines 401-411: the entries one line contributes
RECURSIVE appendMatches(_, _, _)
appendMatches(versions, matches, map) ==
    IF matches = <<>> THEN versions
    ELSE appendMatches(
             AppendSlice(versions,
                 [Version |-> Head(matches),
                  Status |-> StatusOf(map, Head(matches)),
                  NpmVersion |-> Unknown]),
             Tail(matches), map)

\* lines 394-412
RECURSIVE textLoop(_, _, _)
textLoop(lines, versions, map) ==
    IF lines = <<>> THEN versions
    ELSE LET line == TrimSpace(Head(lines))
         IN  IF IsSkippedLine(line) THEN textLoop(Tail(lines), versions, map)
             ELSE textLoop(Tail(lines),
                           appendMatches(versions, FindAllString(line), map), map)

\* the npm field not copied
RECURSIVE catalogLoopNoNpm(_, _, _)
catalogLoopNoNpm(nodeVersions, versions, map) ==
    IF nodeVersions = <<>> THEN versions
    ELSE catalogLoopNoNpm(Tail(nodeVersions),
             AppendSlice(versions,
                 [Version |-> Head(nodeVersions).version,
                  Status |-> StatusOf(map, Head(nodeVersions).version),
                  NpmVersion |-> Unknown]),
             map)

\* lines 335-359
RECURSIVE catalogLoop(_, _, _)
catalogLoop(nodeVersions, versions, map) ==
    IF nodeVersions = <<>> THEN versions
    ELSE catalogLoop(Tail(nodeVersions),
             AppendSlice(versions,
                 [Version |-> Head(nodeVersions).version,
                  Status |-> StatusOf(map, Head(nodeVersions).version),
                  NpmVersion |-> Head(nodeVersions).npm]),
             map)

\* lines 325-329 and 382-386: the nested call failed
nestedError(inst) ==
    [kind |-> "return", versions |-> NilSlice,
     err |-> <<"Error fetching installed versions: ">> \o inst.err]

\* lines 324-362: the catalog path, given the nested GetInstalledNodeVersions
annotateCatalog(nodeVersions, inst) ==
    IF inst.kind = "panic" THEN [kind |-> "panic", versions |-> NilSlice, err |-> NilErr]
    ELSE IF inst.err # NilErr THEN nestedError(inst)
    ELSE [kind |-> "return",
          versions |-> catalogLoop(nodeVersions, NilSlice,
                                   installedMap(inst.versions.elems)),
          err |-> NilErr]

\* lines 378-422: the text path, given the nested GetInstalledNodeVersions
annotateText(output, inst) ==
    IF inst.kind = "panic" THEN [kind |-> "panic", versions |-> NilSlice, err |-> NilErr]
    ELSE IF inst.err # NilErr THEN nestedError(inst)
    ELSE [kind |-> "return",
          versions |-> textLoop(Split(output, Newline), NilSlice,
                                installedMap(inst.versions.elems)),
          err |-> NilErr]

\* line 310: http.Get gives a response, whose body is open, unless it gives an
\* error
bodyAfterGet(h) == IF h.kind = "getError" THEN "none" ELSE "open"

\* lines 311-312: defer resp.Body.Close() is reached when err == nil and the
\* status is 200
deferredClose(h) == h.kind \in {"ok", "readError", "parseError"}

\* the deferred calls run when the function returns or panics
bodyAtReturn(h, b) == IF deferredClose(h) THEN "closed" ELSE b

\* the Unmarshal error ignored
catalogUsableUnparsed(h) == h.kind \in {"ok", "parseError"}

\* line 311 and the two else branches 314, 319: the catalog is used only when
\* the GET succeeded with status 200, the body was read and it parsed
catalogUsable(h) == h.kind = "ok"

---------------------------------------------------------------------------
(* App.jsx: compareVersions and Array.prototype.sort *)

DigitVal == [c \in Digits |->
    CASE c = "0" -> 0 [] c = "1" -> 1 [] c = "2" -> 2 [] c = "3" -> 3
      [] c = "4" -> 4 [] c = "5" -> 5 [] c = "6" -> 6 [] c = "7" -> 7
      [] c = "8" -> 8 [] c = "9" -> 9]

\* a JavaScript value of the comparator: a number, NaN or undefined
Num(n) == [k |-> "num", n |-> n]
NaN == [k |-> "nan", n |-> 0]
Undefined == [k |-> "undef", n |-> 0]

RECURSIVE DecimalValue(_, _)
DecimalValue(ds, acc) ==
    IF ds = <<>> THEN acc ELSE DecimalValue(Tail(ds), 10 * acc + DigitVal[Head(ds)])

\* parseInt(str, 10): leading white space skipped, an optional sign, then the
\* longest run of digits; NaN when there is no digit
parseInt(str) ==
    LET t == TrimLeft(str)
        signed == t # <<>> /\ Head(t) \in {"+", "-"}
        u == IF signed THEN Tail(t) ELSE t
        n == Span(u, Digits)
        v == DecimalValue(SubSeq(u, 1, n), 0)
    IN  IF n = 0 THEN NaN
        ELSE IF signed /\ Head(t) = "-" THEN Num(0 - v) ELSE Num(v)

\* line 13: version.split('.').map((num) => parseInt(num, 10))
RECURSIVE mapParseInt(_)
mapParseInt(parts) ==
    IF parts = <<>> THEN <<>> ELSE <<parseInt(Head(parts))>> \o mapParseInt(Tail(parts))

parseVersion(version) == mapParseInt(Split(version, <<".">>))

\* lines 14-15: array destructuring, a missing element is undefined
Component(parsed, i) == IF i <= Len(parsed) THEN parsed[i] ELSE Undefined

\* x !== y
StrictNotEqual(x, y) == x.k = "nan" \/ y.k = "nan" \/ x # y

\* x - y
Minus(x, y) == IF x.k = "num" /\ y.k = "num" THEN Num(x.n - y.n) ELSE NaN

\* the minor versions compared in ascending order
compareVersionsMinorAscending(a, b) ==
    LET pa == parseVersion(a.Version)
        pb == parseVersion(b.Version)
    IN  IF StrictNotEqual(Component(pa, 1), Component(pb, 1))
        THEN Minus(Component(pb, 1), Component(pa, 1))
        ELSE IF StrictNotEqual(Component(pa, 2), Component(pb, 2))
        THEN Minus(Component(pa, 2), Component(pb, 2))
        ELSE Minus(Component(pb, 3), Component(pa, 3))

\* lines 12-20
compareVersions(a, b) ==
    LET pa == parseVersion(a.Version)
        pb == parseVersion(b.Version)
    IN  IF StrictNotEqual(Component(pa, 1), Component(pb, 1))
        THEN Minus(Component(pb, 1), Component(pa, 1))
        ELSE IF StrictNotEqual(Component(pa, 2), Component(pb, 2))
        THEN Minus(Component(pb, 2), Component(pa, 2))
        ELSE Minus(Component(pb, 3), Component(pa, 3))

\* SortCompare of ECMAScript: a NaN from the comparator counts as +0
SortCompare(a, b) == LET v == compareVersions(a, b) IN IF v.k = "num" THEN v.n ELSE 0

\* ECMAScript's "consistent comparator" for the values of the list
ConsistentComparator(list) ==
    LET E == {list[i] : i \in 1..Len(list)}
        lt(a, b) == SortCompare(a, b) < 0
        eq(a, b) == SortCompare(a, b) = 0
        gt(a, b) == SortCompare(a, b) > 0
    IN  /\ \A a \in E : eq(a, a)
        /\ \A a, b \in E : eq(a, b) => eq(b, a)
        /\ \A a, b, c \in E : eq(a, b) /\ eq(b, c) => eq(a, c)
        /\ \A a, b, c \in E : lt(a, b) /\ lt(b, c) => lt(a, c)
        /\ \A a, b, c \in E : gt(a, b) /\ gt(b, c) => gt(a, c)

Permuted(list, p) == [i \in 1..Len(list) |-> list[p[i]]]

\* list.sort(compareVersions): the stable sorted order when the comparator is
\* consistent, an implementation-defined order otherwise
SortOutcomes(list) ==
    LET n == Len(list)
        perms == {p \in [1..n -> 1..n] : \A i, j \in 1..n : i # j => p[i] # p[j]}
        sorted(p) == \A i, j \in 1..n : i < j =>
                         \/ SortCompare(list[p[i]], list[p[j]]) < 0
                         \/ SortCompare(list[p[i]], list[p[j]]) = 0 /\ p[i] < p[j]
    IN  IF ConsistentComparator(list)
        THEN {Permuted(list, p) : p \in {q \in perms : sorted(q)}}
        ELSE {Permuted(list, p) : p \in perms}

\* the value the bound call resolves with: encoding/json writes a nil slice as
\* null and any other slice as an array
toJS(slice) == [isNull |-> slice.isNil, items |-> slice.elems]

---------------------------------------------------------------------------
(* Inputs: what the external tool and the remote service may answer *)

Sp == <<" ">>
V18_16_0 == <<"1", "8", ".", "1", "6", ".", "0">>
V16_20_0 == <<"1", "6", ".", "2", "0", ".", "0">>
V14_17_0 == <<"1", "4", ".", "1", "7", ".", "0">>
V16_0_0 == <<"1", "6", ".", "0", ".", "0">>
Npm8 == <<"8", ".", "5", ".", "0">>

\* every concatenation of at most n pieces
Texts(pieces, n) ==
    UNION {{Flatten(f) : f \in [1..k -> pieces]} : k \in 0..n}

LsPieces == {Star, Sp, Newline, V18_16_0, V16_20_0, Arrow, Default}

\* " * 18.16.0\n  16.20.0\n default -> 16.20.0 (-> v16.20.0)\n"
ScenarioLs ==
    Flatten(<<Sp, Star, Sp, V18_16_0, Newline,
              Sp, Sp, V16_20_0, Newline,
              Sp, Default, Sp, Arrow, Sp, V16_20_0, Sp, <<"(">>, Arrow, Sp,
              <<"v">>, V16_20_0, <<")">>, Newline>>)

\* the layout of nvm for Windows, with CRLF line ends and a remark after the
\* current version; and a listing with a "system" pseudo-entry
WindowsLs ==
    Flatten(<<<<"\r", "\n">>, Sp, Sp, Star, Sp, V18_16_0, Sp,
              <<"(", "x", "6", "4", ")">>, <<"\r", "\n">>,
              Sp, Sp, Sp, Sp, V16_20_0, <<"\r", "\n">>>>)

SystemLs == Flatten(<<<<"\t">>, System, Newline, <<"v">>, V16_20_0, Newline>>)

\* two lines carry the marker, and a line carries it twice
TwoMarkersLs == Flatten(<<Star, Sp, V18_16_0, Newline, Star, Sp, V16_20_0, Newline>>)

DoubleMarkerLs == Flatten(<<Star, Sp, Star, V18_16_0, Newline, V16_20_0>>)

V14_2_1 == <<"1", "4", ".", "2", ".", "1">>
V14_2_10 == <<"1", "4", ".", "2", ".", "1", "0">>

\* version names a listing may carry: well-formed ones, one with a leading
\* "v", one without a patch component, and a word
SortVersions ==
    {V14_17_0, V16_0_0, V14_2_1, V14_2_10,
     <<"v">> \o V16_0_0, <<"1", "6", ".", "0">>, <<"l", "a", "t", "e", "s", "t">>}

RECURSIVE JoinLines(_)
JoinLines(names) ==
    IF names = <<>> THEN <<>> ELSE Head(names) \o Newline \o JoinLines(Tail(names))

\* listings of at most MaxSortLen installed versions, one per line, in any order
SortTexts ==
    UNION {{JoinLines(f) : f \in [1..k -> SortVersions]} : k \in 1..MaxSortLen}

LsTexts ==
    Texts(LsPieces, MaxLsPieces)
        \cup {ScenarioLs, WindowsLs, SystemLs, TwoMarkersLs, DoubleMarkerLs}
        \cup SortTexts

ExitStatus1 == <<"exit status 1">>

FailedCmds == {Cmd(<<>>, ExitStatus1), Cmd(<<"E", "R", "R">>, ExitStatus1)}

\* `nvm ls` answers of a direct GetInstalledNodeVersions call
LsCmds == {Cmd(t, NilErr) : t \in LsTexts} \cup FailedCmds

\* `nvm ls` answers inside GetAvailableNodeVersions: a few installed sets, a
\* marker-only listing and the failures
NestedLsTexts ==
    {<<>>,
     Flatten(<<V16_0_0, Newline>>),
     Flatten(<<Star, Sp, V14_17_0, Newline, V16_0_0, Newline>>),
     Flatten(<<Star, <<"v">>, V16_0_0, Newline, V14_17_0>>),
     Flatten(<<Star, Newline>>)}

NestedLsCmds == {Cmd(t, NilErr) : t \in NestedLsTexts} \cup FailedCmds

AvailPieces == {Sp, Newline, V14_17_0, V16_0_0, <<"v">>, Hyphen, CURRENT, <<".">>}

\* "   14.17.0   LTS\n   16.0.0\n"
ScenarioAvail ==
    Flatten(<<Sp, Sp, Sp, V14_17_0, Sp, Sp, Sp, <<"L", "T", "S">>, Newline,
              Sp, Sp, Sp, V16_0_0, Newline>>)

\* "v14.17.0 14.17.0abc 16.0.0"
AffixAvail ==
    Flatten(<<<<"v">>, V14_17_0, Sp, V14_17_0, <<"a", "b", "c">>, Sp, V16_0_0>>)

\* the table nvm for Windows prints: a header, a separator and two rows
TableAvail ==
    Flatten(<<<<"|">>, Sp, CURRENT, Sp, <<"|">>, Sp, <<"L", "T", "S">>, Sp, <<"|">>,
              <<"\r", "\n">>,
              <<"|">>, Hyphen, Hyphen, <<"|">>, Hyphen, Hyphen, <<"|">>, <<"\r", "\n">>,
              <<"|">>, Sp, V16_0_0, Sp, <<"|">>, Sp, V14_17_0, Sp, <<"|">>,
              <<"\r", "\n">>,
              <<"|">>, Sp, V18_16_0, Sp, <<"|">>, Sp, V16_20_0, Sp, <<"|">>,
              <<"\r", "\n">>>>)

AvailTexts ==
    Texts(AvailPieces, MaxAvailPieces) \cup {ScenarioAvail, AffixAvail, TableAvail}

AvailCmds == {Cmd(t, NilErr) : t \in AvailTexts} \cup FailedCmds

\* versions the UI asks to install, uninstall or switch to
ActionVersions == {V16_0_0, V18_16_0}

\* what the tool answers to install, uninstall and use
ActionCmds ==
    {Cmd(<<>>, NilErr), Cmd(<<"O", "K">>, NilErr)} \cup FailedCmds

\* records of the remote catalog: the fields the code reads
CatalogRecords ==
    [version : {V16_0_0, V14_17_0, <<"v">> \o V16_0_0}, npm : {Npm8, <<>>}]

Catalogs == UNION {[1..k -> CatalogRecords] : k \in 0..MaxCatalog}

Http(kind, catalog) == [kind |-> kind, catalog |-> catalog]

\* http.Get failed; the status is not 200; ReadAll failed; Unmarshal failed;
\* or the document parsed into nodeVersions
RemoteFailures == {"getError", "status", "readError", "parseError"}

HttpOutcomes ==
    {Http(k, <<>>) : k \in RemoteFailures} \cup {Http("ok", c) : c \in Catalogs}

---------------------------------------------------------------------------
(* The state machine of one bound call issued by the UI *)

NoReturn == [kind |-> "none", versions |-> NilSlice, err |-> NilErr]

\* a JavaScript value that is null or a string
Null == [isNull |-> TRUE, value |-> <<>>]
Str(v) == [isNull |-> FALSE, value |-> v]

\* the async functions of a session: the mount effect and one per click
Mount == 0
HandlerIds == 0..MaxClicks

\* a function not started: kind is "mount", "install", "switch" or
\* "uninstall" once started, at the bound call it awaits, served whether the
\* backend has returned, response and reply what it returned
NewHandler ==
    [kind |-> "none", version |-> <<>>, at |-> "new", served |-> FALSE,
     response |-> <<>>, reply |-> NoReturn]

DoneHandler == [NewHandler EXCEPT !.at = "done"]

\* the goroutines of the backend: the two lifecycle callbacks of Wails, the
\* health check and the bound calls that run the external tool
Callers == {<<"call", i>> : i \in 1..MaxCalls}
Goroutines == {<<"startup">>, <<"shutdown">>, <<"health">>} \cup Callers

NoWriter == <<"none">>

\* app.go 61-75: NewApp; logs is what main.go's OnStartup has set enableLogs to
AppInit(logs) ==
    /\ mu = [writer |-> NoWriter, readers |-> {}]
    /\ gpc = [g \in Goroutines |-> "new"]
    /\ gret = [g \in Goroutines |-> "none"]
    /\ ctxState = "unset"
    /\ age = 0
    /\ idle = 0
    /\ tick = FALSE
    /\ enableLogs = logs
    /\ healthy = TRUE
    /\ idleSeen = 0
    /\ reloads = 0

QuitClicks == 1..MaxQuitClicks

\* main.go 168-170, 319-330: the channel is made, the menu is built
TrayInit ==
    /\ trayAlive = TRUE
    /\ quitters = [i \in QuitClicks |-> "new"]
    /\ cleaners = [i \in QuitClicks |-> "new"]
    /\ quitChan = "open"
    /\ process = "running"
    /\ window = "shown"

\* App.jsx 28-29
SessionInit ==
    /\ loadingVersion = Null
    /\ loadingAction = ""
    /\ handlers = [h \in HandlerIds |-> NewHandler]
    /\ nvmInstalled = {}
    /\ nvmCurrent = {}

Init ==
    /\ pc = "idle"
    /\ op = "none"
    /\ calls = <<>>
    /\ http = Http("none", <<>>)
    /\ availText = <<>>
    /\ lsText = <<>>
    /\ installedRet = NoReturn
    /\ annotated = "none"
    /\ ret = NoReturn
    /\ installedVersions = <<>>
    /\ availableVersions = <<>>
    /\ result = <<>>
    /\ argVersion = <<>>
    /\ runs = <<>>
    /\ message = <<>>
    /\ body = "none"
    /\ SessionInit
    /\ AppInit(FALSE)
    /\ TrayInit

\* App.jsx 41: fetchInstalledVersions calls the bound method
CallGetInstalled ==
    /\ pc = "idle"
    /\ pc' = "GI_ls"
    /\ op' = "GetInstalledNodeVersions"
    /\ UNCHANGED <<argVersion, runs, message, sessionVars, appVars, trayVars, body, calls, http, availText, lsText, installedRet, annotated, ret,
                   installedVersions, availableVersions, result>>

PcAfter(r) == IF r.kind = "panic" THEN "panicked" ELSE "returned"

\* app.go 258-299: `nvm ls` answers and the method runs to its end
RunGetInstalled ==
    /\ pc = "GI_ls"
    /\ \E cmd \in LsCmds :
        /\ calls' = Append(calls, "nvm ls")
        /\ runs' = executeNvmCommand(runs, <<"ls">>, cmd)
        /\ lsText' = cmd.output
        /\ installedRet' = GetInstalledNodeVersions(cmd)
        /\ ret' = GetInstalledNodeVersions(cmd)
        /\ pc' = PcAfter(GetInstalledNodeVersions(cmd))
    /\ UNCHANGED <<argVersion, message, sessionVars, appVars, trayVars, body, op, http, availText, annotated, installedVersions,
                   availableVersions, result>>

\* App.jsx 51: fetchAvailableVersions calls the bound method
CallGetAvailable ==
    /\ pc = "idle"
    /\ pc' = "GA_http"
    /\ op' = "GetAvailableNodeVersions"
    /\ UNCHANGED <<argVersion, runs, message, sessionVars, appVars, trayVars, body, calls, http, availText, lsText, installedRet, annotated, ret,
                   installedVersions, availableVersions, result>>

\* app.go 310-321: the remote catalog answers, or fails in one of four ways
HttpGet ==
    /\ pc = "GA_http"
    /\ \E h \in HttpOutcomes :
        /\ http' = h
        /\ body' = bodyAfterGet(h)
        /\ pc' = IF catalogUsable(h) THEN "GA_ls" ELSE "GA_lsAvailable"
    /\ calls' = Append(calls, "GET index.json")
    /\ UNCHANGED <<argVersion, runs, message, sessionVars, appVars, trayVars, op, availText, lsText, installedRet, annotated, ret,
                   installedVersions, availableVersions, result>>

\* app.go 372-376: the fallback runs `nvm ls available`
RunLsAvailable ==
    /\ pc = "GA_lsAvailable"
    /\ \E cmd \in AvailCmds :
        /\ runs' = executeNvmCommand(runs, <<"ls", "available">>, cmd)
        /\ availText' = cmd.output
        /\ IF cmd.err # NilErr
           THEN /\ ret' = [kind |-> "return", versions |-> NilSlice,
                           err |-> <<"Error fetching available versions: ">> \o cmd.err]
                /\ body' = bodyAtReturn(http, body)
                /\ pc' = "returned"
           ELSE /\ ret' = ret
                /\ body' = body
                /\ pc' = "GA_ls"
    /\ calls' = Append(calls, "nvm ls available")
    /\ UNCHANGED <<argVersion, message, sessionVars, appVars, trayVars, op, http, lsText, installedRet, annotated, installedVersions,
                   availableVersions, result>>

\* app.go 325-362 and 382-422: the nested GetInstalledNodeVersions and the
\* annotation loop of the path taken
RunAnnotate ==
    /\ pc = "GA_ls"
    /\ \E cmd \in NestedLsCmds :
        LET inst == GetInstalledNodeVersions(cmd)
            r == IF catalogUsable(http) THEN annotateCatalog(http.catalog, inst)
                 ELSE annotateText(availText, inst)
        IN  /\ runs' = executeNvmCommand(runs, <<"ls">>, cmd)
            /\ lsText' = cmd.output
            /\ installedRet' = inst
            /\ ret' = r
            /\ annotated' = IF inst.kind = "return" /\ inst.err = NilErr
                            THEN (IF catalogUsable(http) THEN "catalog" ELSE "text")
                            ELSE "none"
            /\ body' = bodyAtReturn(http, body)
            /\ pc' = PcAfter(r)
    /\ calls' = Append(calls, "nvm ls")
    /\ UNCHANGED <<argVersion, message, sessionVars, appVars, trayVars, op, http, availText, installedVersions, availableVersions, result>>

\* App.jsx 39-46: the await settles; a rejected promise and a TypeError of
\* null.sort both reach the catch
fetchInstalledVersions ==
    /\ pc = "returned"
    /\ op = "GetInstalledNodeVersions"
    /\ pc' = "settled"
    /\ IF ret.err # NilErr \/ toJS(ret.versions).isNull
       THEN /\ result' = <<"Error fetching installed versions">>
            /\ installedVersions' = installedVersions
       ELSE /\ installedVersions' \in SortOutcomes(toJS(ret.versions).items)
            /\ result' = result
    /\ UNCHANGED <<argVersion, runs, message, sessionVars, appVars, trayVars, body, op, calls, http, availText, lsText, installedRet, annotated, ret,
                   availableVersions>>

\* App.jsx 49-56
fetchAvailableVersions ==
    /\ pc = "returned"
    /\ op = "GetAvailableNodeVersions"
    /\ pc' = "settled"
    /\ IF ret.err # NilErr \/ toJS(ret.versions).isNull
       THEN /\ result' = <<"Error fetching available versions">>
            /\ availableVersions' = availableVersions
       ELSE /\ availableVersions' \in SortOutcomes(toJS(ret.versions).items)
            /\ result' = result
    /\ UNCHANGED <<argVersion, runs, message, sessionVars, appVars, trayVars, body, op, calls, http, availText, lsText, installedRet, annotated, ret,
                   installedVersions>>

\* App.jsx 70, 86, 101: a handler calls the bound method with the version
CallAction ==
    /\ pc = "idle"
    /\ \E method \in ActionMethods, v \in ActionVersions :
        /\ op' = method
        /\ argVersion' = v
    /\ pc' = "ACT_run"
    /\ UNCHANGED <<calls, http, availText, lsText, installedRet, annotated, ret, runs,
                   message, installedVersions, availableVersions, result, sessionVars, appVars, trayVars, body>>

\* app.go 212-254: the method runs the tool and returns its message
RunAction ==
    /\ pc = "ACT_run"
    /\ \E cmd \in ActionCmds :
        /\ runs' = executeNvmCommand(runs, <<Verb(op), argVersion>>, cmd)
        /\ message' = actionMessage(op, argVersion, cmd)
    /\ calls' = Append(calls, "nvm " \o Verb(op))
    /\ pc' = "returned"
    /\ UNCHANGED <<op, http, availText, lsText, installedRet, annotated, ret, argVersion,
                   installedVersions, availableVersions, result, sessionVars, appVars, trayVars, body>>

\* App.jsx 71, 87, 102: setResult(response)
setResult ==
    /\ pc = "returned"
    /\ op \in ActionMethods
    /\ result' = message
    /\ pc' = "settled"
    /\ UNCHANGED <<op, calls, http, availText, lsText, installedRet, annotated, ret,
                   argVersion, runs, message, installedVersions, availableVersions,
                   sessionVars, appVars, trayVars, body>>

Next ==
    \/ CallAction
    \/ RunAction
    \/ setResult
    \/ CallGetInstalled
    \/ RunGetInstalled
    \/ CallGetAvailable
    \/ HttpGet
    \/ RunLsAvailable
    \/ RunAnnotate
    \/ fetchInstalledVersions
    \/ fetchAvailableVersions

Spec == Init /\ [][Next]_vars

---------------------------------------------------------------------------
(* The user session: the mount effect and the click handlers of App.jsx,   *)
(* each bound call served by the backend against the state of the tool    *)

\* the versions the remote catalog and the tool know in a session
UIVersionOrder == <<V16_0_0, V14_17_0>>
UIVersions == {UIVersionOrder[i] : i \in 1..Len(UIVersionOrder)}

UICatalog == [i \in 1..Len(UIVersionOrder) |-> [version |-> UIVersionOrder[i], npm |-> Npm8]]

\* the line `nvm ls` prints for an installed version
LsLine(v, current) ==
    IF v \in current THEN Flatten(<<Sp, Sp, Star, Sp, v, Newline>>)
    ELSE Flatten(<<Sp, Sp, Sp, Sp, v, Newline>>)

\* the listing `nvm ls` prints for the installed versions
LsListing(installed, current) ==
    Flatten([i \in 1..Len(UIVersionOrder) |->
                IF UIVersionOrder[i] \in installed
                THEN LsLine(UIVersionOrder[i], current) ELSE <<>>])

ToolFailure == Cmd(<<"E", "R", "R">>, ExitStatus1)

\* `nvm ls` lists what is installed, or fails
NvmLs(installed, current) == {Cmd(LsListing(installed, current), NilErr), ToolFailure}

\* `nvm ls available` prints its listing, or fails
NvmLsAvailable == {Cmd(ScenarioAvail, NilErr), ToolFailure}

\* the remote catalog answers, or cannot be reached
UIHttpOutcomes == {Http("ok", UICatalog), Http("getError", <<>>)}

\* app.go 305-423: GetAvailableNodeVersions, given what the remote catalog,
\* `nvm ls available` and the nested `nvm ls` answer
GetAvailableNodeVersions(h, availCmd, lsCmd) ==
    IF catalogUsable(h) THEN annotateCatalog(h.catalog, GetInstalledNodeVersions(lsCmd))
    ELSE IF availCmd.err # NilErr
    THEN [kind |-> "return", versions |-> NilSlice,
          err |-> <<"Error fetching available versions: ">> \o availCmd.err]
    ELSE annotateText(availCmd.output, GetInstalledNodeVersions(lsCmd))

\* the bound method a click handler calls first
MethodOf(kind) ==
    CASE kind = "install" -> "InstallNodeVersion"
      [] kind = "uninstall" -> "UninstallNodeVersion"
      [] kind = "switch" -> "SwitchNodeVersion"

\* what the tool has installed and in use after a successful run
InstalledAfter(kind, v, installed) ==
    CASE kind = "install" -> installed \cup {v}
      [] kind = "uninstall" -> installed \ {v}
      [] kind = "switch" -> installed

CurrentAfter(kind, v, current) ==
    CASE kind = "install" -> current
      [] kind = "uninstall" -> current \ {v}
      [] kind = "switch" -> {v}

\* the run can succeed: `nvm use` needs the version to be installed
CanSucceed(kind, v, installed) == kind = "switch" => v \in installed

InitUI ==
    /\ pc = "idle"
    /\ op = "none"
    /\ calls = <<>>
    /\ http = Http("none", <<>>)
    /\ availText = <<>>
    /\ lsText = <<>>
    /\ installedRet = NoReturn
    /\ annotated = "none"
    /\ ret = NoReturn
    /\ argVersion = <<>>
    /\ runs = <<>>
    /\ message = <<>>
    /\ installedVersions = <<>>
    /\ availableVersions = <<>>
    /\ result = <<>>
    /\ loadingVersion = Null
    /\ loadingAction = ""
    /\ handlers = [h \in HandlerIds |-> NewHandler]
    /\ nvmInstalled \in SUBSET UIVersions
    /\ nvmCurrent \in {c \in SUBSET nvmInstalled : Cardinality(c) <= 1}
    /\ body = "none"
    /\ AppInit(FALSE)
    /\ TrayInit

Awaiting(h, call) == handlers[h].at = call /\ ~handlers[h].served

Resolved(h, call) == handlers[h].at = call /\ handlers[h].served

\* the handler awaits the next bound call
AwaitNext(h, call) == [handlers EXCEPT ![h].at = call, ![h].served = FALSE]

\* the buttons never disabled
ButtonAlwaysEnabled(lv) == FALSE

\* App.jsx 164, 176, 229, 240: disabled={loadingVersion !== null}
ButtonDisabled(lv) == ~lv.isNull

\* App.jsx 160-184: a row of the Versions tab has a Use button when its Status
\* is "Installed" and an Install button otherwise
InstallButtons ==
    {availableVersions[i].Version : i \in {k \in 1..Len(availableVersions) :
                                              availableVersions[k].Status # "Installed"}}

UseButtons ==
    {availableVersions[i].Version : i \in {k \in 1..Len(availableVersions) :
                                              availableVersions[k].Status = "Installed"}}

\* App.jsx 217-249: a row of the Installed tab has Switch and Uninstall
\* buttons unless it is the current version
SwitchButtons ==
    {installedVersions[i].Version : i \in {k \in 1..Len(installedVersions) :
                                              ~installedVersions[k].IsCurrent}}

\* the handler a click starts: the first one not started yet
FreeHandler(h) ==
    /\ h \in 1..MaxClicks
    /\ handlers[h].at = "new"
    /\ \A g \in 1..(h - 1) : handlers[g].at # "new"

\* lines 67-70, 83-86, 98-101: the handler sets the loading state and calls
\* the bound method
StartAction(h, kind, v) ==
    /\ loadingVersion' = Str(v)
    /\ loadingAction' = kind
    /\ handlers' = [handlers EXCEPT ![h] =
                       [NewHandler EXCEPT !.kind = kind, !.version = v, !.at = "action"]]
    /\ UNCHANGED <<callVars, appVars, trayVars, installedVersions, availableVersions, result,
                   nvmInstalled, nvmCurrent>>

\* App.jsx 58-64: the mount effect starts fetchVersions, which calls
\* fetchAvailableVersions
MountEffect ==
    /\ handlers[Mount].at = "new"
    /\ handlers' = [handlers EXCEPT ![Mount] =
                       [NewHandler EXCEPT !.kind = "mount", !.at = "available"]]
    /\ UNCHANGED <<callVars, appVars, trayVars, installedVersions, availableVersions, result,
                   loadingVersion, loadingAction, nvmInstalled, nvmCurrent>>

\* App.jsx 66-70, clicked on an Install button
handleInstallVersion ==
    /\ ~ButtonDisabled(loadingVersion)
    /\ \E h \in HandlerIds, v \in InstallButtons :
        FreeHandler(h) /\ StartAction(h, "install", v)

\* App.jsx 82-86, clicked on a Use or a Switch button
handleSwitchVersion ==
    /\ ~ButtonDisabled(loadingVersion)
    /\ \E h \in HandlerIds, v \in UseButtons \cup SwitchButtons :
        FreeHandler(h) /\ StartAction(h, "switch", v)

\* App.jsx 97-101, clicked on an Uninstall button
handleUninstallVersion ==
    /\ ~ButtonDisabled(loadingVersion)
    /\ \E h \in HandlerIds, v \in SwitchButtons :
        FreeHandler(h) /\ StartAction(h, "uninstall", v)

\* app.go 212-254: the backend runs the tool for an awaited action; the run
\* succeeds and changes what is installed or in use, or fails and changes
\* nothing
ServeAction ==
    \E h \in HandlerIds :
        /\ Awaiting(h, "action")
        /\ \E ok \in BOOLEAN :
            LET kind == handlers[h].kind
                v == handlers[h].version
                cmd == IF ok THEN Cmd(<<>>, NilErr) ELSE ToolFailure
            IN  /\ ok => CanSucceed(kind, v, nvmInstalled)
                /\ handlers' = [handlers EXCEPT
                       ![h].served = TRUE,
                       ![h].response = actionMessage(MethodOf(kind), v, cmd)]
                /\ nvmInstalled' = IF ok THEN InstalledAfter(kind, v, nvmInstalled)
                                   ELSE nvmInstalled
                /\ nvmCurrent' = IF ok THEN CurrentAfter(kind, v, nvmCurrent)
                                 ELSE nvmCurrent
        /\ UNCHANGED <<callVars, appVars, trayVars, installedVersions, availableVersions, result,
                       loadingVersion, loadingAction>>

\* app.go 258-299: the backend serves an awaited GetInstalledNodeVersions
ServeGetInstalled ==
    \E h \in HandlerIds :
        /\ Awaiting(h, "installed")
        /\ \E cmd \in NvmLs(nvmInstalled, nvmCurrent) :
            handlers' = [handlers EXCEPT ![h].served = TRUE,
                                         ![h].reply = GetInstalledNodeVersions(cmd)]
        /\ UNCHANGED <<callVars, appVars, trayVars, installedVersions, availableVersions, result,
                       loadingVersion, loadingAction, nvmInstalled, nvmCurrent>>

\* app.go 305-423: the backend serves an awaited GetAvailableNodeVersions
ServeGetAvailable ==
    \E h \in HandlerIds :
        /\ Awaiting(h, "available")
        /\ \E o \in UIHttpOutcomes, availCmd \in NvmLsAvailable,
              lsCmd \in NvmLs(nvmInstalled, nvmCurrent) :
            handlers' = [handlers EXCEPT
                ![h].served = TRUE,
                ![h].reply = GetAvailableNodeVersions(o, availCmd, lsCmd)]
        /\ UNCHANGED <<callVars, appVars, trayVars, installedVersions, availableVersions, result,
                       loadingVersion, loadingAction, nvmInstalled, nvmCurrent>>

\* App.jsx 70-72, 86-88, 101-103: the action resolved; setResult(response),
\* then fetchInstalledVersions is called
ResumeAction ==
    \E h \in HandlerIds :
        /\ Resolved(h, "action")
        /\ result' = handlers[h].response
        /\ handlers' = AwaitNext(h, "installed")
        /\ UNCHANGED <<callVars, appVars, trayVars, installedVersions, availableVersions,
                       loadingVersion, loadingAction, nvmInstalled, nvmCurrent>>

\* the finally block missing
FinishKeepsLoading(h) ==
    /\ handlers' = [handlers EXCEPT ![h] = DoneHandler]
    /\ UNCHANGED <<loadingVersion, loadingAction>>

\* the handler has run to its end; lines 76-79, 91-94, 107-110: the finally
\* block of a click handler resets the loading state
Finish(h) ==
    /\ handlers' = [handlers EXCEPT ![h] = DoneHandler]
    /\ IF handlers[h].kind = "mount"
       THEN UNCHANGED <<loadingVersion, loadingAction>>
       ELSE loadingVersion' = Null /\ loadingAction' = ""

\* App.jsx 41-45, and what the caller does next: fetchVersions ends (line
\* 61), handleSwitchVersion ends (line 88), handleInstallVersion and
\* handleUninstallVersion call fetchAvailableVersions (lines 73, 104)
ResumeFetchInstalled ==
    \E h \in HandlerIds :
        /\ Resolved(h, "installed")
        /\ IF handlers[h].reply.err # NilErr \/ toJS(handlers[h].reply.versions).isNull
           THEN /\ result' = <<"Error fetching installed versions">>
                /\ installedVersions' = installedVersions
           ELSE /\ installedVersions' \in
                       SortOutcomes(toJS(handlers[h].reply.versions).items)
                /\ result' = result
        /\ IF handlers[h].kind \in {"install", "uninstall"}
           THEN /\ handlers' = AwaitNext(h, "available")
                /\ UNCHANGED <<loadingVersion, loadingAction>>
           ELSE Finish(h)
        /\ UNCHANGED <<callVars, appVars, trayVars, availableVersions, nvmInstalled, nvmCurrent>>

\* App.jsx 51-55, and what the caller does next: fetchVersions calls
\* fetchInstalledVersions (line 61), handleInstallVersion and
\* handleUninstallVersion end (lines 73, 104)
ResumeFetchAvailable ==
    \E h \in HandlerIds :
        /\ Resolved(h, "available")
        /\ IF handlers[h].reply.err # NilErr \/ toJS(handlers[h].reply.versions).isNull
           THEN /\ result' = <<"Error fetching available versions">>
                /\ availableVersions' = availableVersions
           ELSE /\ availableVersions' \in
                       SortOutcomes(toJS(handlers[h].reply.versions).items)
                /\ result' = result
        /\ IF handlers[h].kind = "mount"
           THEN /\ handlers' = AwaitNext(h, "installed")
                /\ UNCHANGED <<loadingVersion, loadingAction>>
           ELSE Finish(h)
        /\ UNCHANGED <<callVars, appVars, trayVars, installedVersions, nvmInstalled, nvmCurrent>>

NextUI ==
    \/ MountEffect
    \/ handleInstallVersion
    \/ handleSwitchVersion
    \/ handleUninstallVersion
    \/ ServeAction
    \/ ServeGetInstalled
    \/ ServeGetAvailable
    \/ ResumeAction
    \/ ResumeFetchInstalled
    \/ ResumeFetchAvailable

SpecUI == InitUI /\ [][NextUI]_vars

\* every bound call returns, since the external tool and the remote request
\* end, and the event loop runs the continuation of an action whose promise
\* has settled
SessionProgress ==
    \/ ServeAction
    \/ ServeGetInstalled
    \/ ServeGetAvailable
    \/ ResumeAction

\* the continuations of the two fetches: the event loop runs them too
FetchProgress ==
    \/ ResumeFetchInstalled
    \/ ResumeFetchAvailable

\* a fetch has settled and its continuation has not run yet: exactly the
\* states in which a FetchProgress step is possible
FetchSettled ==
    \E h \in HandlerIds : Resolved(h, "installed") \/ Resolved(h, "available")

\* weak fairness of both groups of steps; for FetchProgress it is written
\* out, WF_vars(A) being []<>~ENABLED <<A>>_vars \/ []<><<A>>_vars, with
\* FetchSettled for ENABLED <<FetchProgress>>_vars
SpecUILive ==
    /\ SpecUI
    /\ WF_vars(SessionProgress)
    /\ ([]<>~FetchSettled \/ []<><<FetchProgress>>_vars)

---------------------------------------------------------------------------
(* The tray menu: the click loop of onReady and quitSystray, main.go 319-413 *)

notTray == <<callVars, installedVersions, availableVersions, result, sessionVars, appVars>>

\* the goroutines run until the process ends
Alive == process \in {"running", "quitting"}

\* the goroutine a click on the quit item starts: the first one not started
NextQuitter(i) ==
    /\ quitters[i] = "new"
    /\ \A j \in 1..(i - 1) : quitters[j] # "new"

\* main.go 335-346: a click on the show item; its goroutine shows the window
ShowClicked ==
    /\ Alive
    /\ trayAlive
    /\ window = "hidden"
    /\ window' = "shown"
    /\ UNCHANGED <<trayAlive, quitters, cleaners, quitChan, process, notTray>>

\* main.go 347-348: the loop receives a click on the quit item and starts a
\* goroutine; the loop goes on
QuitClicked ==
    /\ Alive
    /\ trayAlive
    /\ \E i \in QuitClicks :
        /\ NextQuitter(i)
        /\ quitters' = [quitters EXCEPT ![i] = "hide"]
    /\ UNCHANGED <<trayAlive, cleaners, quitChan, process, window, notTray>>

\* main.go 349-352: runtime.WindowHide
QuitHide ==
    /\ Alive
    /\ \E i \in QuitClicks :
        /\ quitters[i] = "hide"
        /\ quitters' = [quitters EXCEPT ![i] = "quitSystray"]
    /\ window' = "hidden"
    /\ UNCHANGED <<trayAlive, cleaners, quitChan, process, notTray>>

\* main.go 392-405: quitSystray starts the goroutine that removes the tray
QuitSystrayStart ==
    /\ Alive
    /\ \E i \in QuitClicks :
        /\ quitters[i] = "quitSystray"
        /\ quitters' = [quitters EXCEPT ![i] = "wait"]
        /\ cleaners' = [cleaners EXCEPT ![i] = "running"]
    /\ UNCHANGED <<trayAlive, quitChan, process, window, notTray>>

\* main.go 394-404: systray.Quit() removes the tray, close(done)
CleanerQuit ==
    /\ Alive
    /\ \E i \in QuitClicks :
        /\ cleaners[i] = "running"
        /\ cleaners' = [cleaners EXCEPT ![i] = "done"]
    /\ trayAlive' = FALSE
    /\ UNCHANGED <<quitters, quitChan, process, window, notTray>>

\* main.go 408-412: done is closed, or 100 ms have passed
QuitSystrayWait ==
    /\ Alive
    /\ \E i \in QuitClicks, timeout \in BOOLEAN :
        /\ quitters[i] = "wait"
        /\ timeout \/ cleaners[i] = "done"
        /\ quitters' = [quitters EXCEPT ![i] = "close"]
    /\ UNCHANGED <<trayAlive, cleaners, quitChan, process, window, notTray>>

\* main.go 357: close(state.quitChan); closing a closed channel panics
CloseQuitChan ==
    /\ Alive
    /\ \E i \in QuitClicks :
        /\ quitters[i] = "close"
        /\ IF quitChan = "closed"
           THEN /\ quitters' = [quitters EXCEPT ![i] = "panicked"]
                /\ process' = "panicked"
                /\ quitChan' = quitChan
           ELSE /\ quitters' = [quitters EXCEPT ![i] = "quit"]
                /\ quitChan' = "closed"
                /\ process' = process
    /\ UNCHANGED <<trayAlive, cleaners, window, notTray>>

\* main.go 359-361: runtime.Quit asks the application to end
RuntimeQuit ==
    /\ Alive
    /\ \E i \in QuitClicks :
        /\ quitters[i] = "quit"
        /\ quitters' = [quitters EXCEPT ![i] = "done"]
    /\ process' = "quitting"
    /\ UNCHANGED <<trayAlive, cleaners, quitChan, window, notTray>>

\* main.go 236-317: wails.Run returns and main ends
ProcessExit ==
    /\ process = "quitting"
    /\ process' = "exited"
    /\ UNCHANGED <<trayAlive, quitters, cleaners, quitChan, window, notTray>>

InitTray == Init

NextTray ==
    \/ ShowClicked
    \/ QuitClicked
    \/ QuitHide
    \/ QuitSystrayStart
    \/ CleanerQuit
    \/ QuitSystrayWait
    \/ CloseQuitChan
    \/ RuntimeQuit
    \/ ProcessExit

SpecTray == InitTray /\ [][NextTray]_vars

---------------------------------------------------------------------------
(* The App's goroutines around a.mu, lastActive and the context,
   app.go 79-208: startup, shutdown, the health check and the callers of
   executeNvmCommand *)

notApp == <<callVars, installedVersions, availableVersions, result, sessionVars, trayVars>>

Health == <<"health">>
Starter == <<"startup">>
Stopper == <<"shutdown">>

\* sync.RWMutex: Lock needs no holder at all, RLock no writer
CanLock(m) == m.writer = NoWriter /\ m.readers = {}
CanRLock(m) == m.writer = NoWriter

Lock(m, g) == [m EXCEPT !.writer = g]
RLock(m, g) == [m EXCEPT !.readers = @ \cup {g}]
RUnlock(m, g) == [m EXCEPT !.readers = @ \ {g}]

UnlockForgotten(m, g) == m
Unlock(m, g) == [m EXCEPT !.writer = NoWriter]

\* the channel of a.ctx.Done() is closed once cancel has run
ctxDoneNever(c) == FALSE
ctxDone(c) == c = "cancelled"

\* a goroutine enters a function that will return to `back`
CallFn(g, entry, back) ==
    /\ gpc' = [gpc EXCEPT ![g] = entry]
    /\ gret' = [gret EXCEPT ![g] = back]

\* the function the goroutine is in returns
ReturnFn(g) ==
    /\ gpc' = [gpc EXCEPT ![g] = gret[g]]
    /\ gret' = [gret EXCEPT ![g] = "none"]

InitApp ==
    /\ pc = "idle"
    /\ op = "none"
    /\ calls = <<>>
    /\ http = Http("none", <<>>)
    /\ availText = <<>>
    /\ lsText = <<>>
    /\ installedRet = NoReturn
    /\ annotated = "none"
    /\ ret = NoReturn
    /\ installedVersions = <<>>
    /\ availableVersions = <<>>
    /\ result = <<>>
    /\ argVersion = <<>>
    /\ runs = <<>>
    /\ message = <<>>
    /\ body = "none"
    /\ SessionInit
    /\ \E logs \in BOOLEAN : AppInit(logs)
    /\ TrayInit

\* app.go 80: updateLastActive takes the write lock
UpdateLockBy(g) ==
    /\ gpc[g] = "updateLastActive"
    /\ CanLock(mu)
    /\ mu' = Lock(mu, g)
    /\ gpc' = [gpc EXCEPT ![g] = "updateLastActive:82"]
    /\ UNCHANGED <<gret, ctxState, age, idle, tick, enableLogs, healthy, idleSeen,
                   reloads, notApp>>

UpdateLock == \E g \in Goroutines : UpdateLockBy(g)

\* app.go 81-82: lastActive = time.Now(), the deferred Unlock, return; a call
\* from executeNvmCommand or startup also ends the time without a tool command
UpdateBodyBy(g) ==
    /\ gpc[g] = "updateLastActive:82"
    /\ age' = 0
    /\ idle' = (IF g = Health THEN idle ELSE 0)
    /\ mu' = Unlock(mu, g)
    /\ ReturnFn(g)
    /\ UNCHANGED <<ctxState, tick, enableLogs, healthy, idleSeen, reloads, notApp>>

UpdateBody == \E g \in Goroutines : UpdateBodyBy(g)

\* app.go 88: checkHealth takes the read lock
CheckRLock ==
    /\ gpc[Health] = "checkHealth"
    /\ CanRLock(mu)
    /\ mu' = RLock(mu, Health)
    /\ gpc' = [gpc EXCEPT ![Health] = "checkHealth:90"]
    /\ UNCHANGED <<gret, ctxState, age, idle, tick, enableLogs, healthy, idleSeen,
                   reloads, notApp>>

\* app.go 89-90: time.Since(a.lastActive) < time.Minute*5, the deferred
\* RUnlock, return; idleSeen notes the time without a tool command at the check
CheckBody ==
    /\ gpc[Health] = "checkHealth:90"
    /\ healthy' = (age < 5)
    /\ idleSeen' = idle
    /\ mu' = RUnlock(mu, Health)
    /\ ReturnFn(Health)
    /\ UNCHANGED <<ctxState, age, idle, tick, enableLogs, reloads, notApp>>

\* app.go 152-154: logToFile returns at once when logging is off
LogCheckBy(g) ==
    /\ gpc[g] = "logToFile"
    /\ IF enableLogs
          THEN gpc' = [gpc EXCEPT ![g] = "logToFile:156"] /\ gret' = gret
          ELSE ReturnFn(g)
    /\ UNCHANGED <<mu, ctxState, age, idle, tick, enableLogs, healthy, idleSeen,
                   reloads, notApp>>

LogCheck == \E g \in Goroutines : LogCheckBy(g)

\* app.go 156: logToFile takes the write lock
LogLockBy(g) ==
    /\ gpc[g] = "logToFile:156"
    /\ CanLock(mu)
    /\ mu' = Lock(mu, g)
    /\ gpc' = [gpc EXCEPT ![g] = "logToFile:159"]
    /\ UNCHANGED <<gret, ctxState, age, idle, tick, enableLogs, healthy, idleSeen,
                   reloads, notApp>>

LogLock == \E g \in Goroutines : LogLockBy(g)

\* app.go 157-179: the line is written (or not), the deferred Unlock, return
LogBodyBy(g) ==
    /\ gpc[g] = "logToFile:159"
    /\ mu' = Unlock(mu, g)
    /\ ReturnFn(g)
    /\ UNCHANGED <<ctxState, age, idle, tick, enableLogs, healthy, idleSeen,
                   reloads, notApp>>

LogBody == \E g \in Goroutines : LogBodyBy(g)

\* app.go 95, main.go 293: OnStartup calls startup
StartupCall ==
    /\ gpc[Starter] = "new"
    /\ gpc' = [gpc EXCEPT ![Starter] = "startup"]
    /\ UNCHANGED <<mu, gret, ctxState, age, idle, tick, enableLogs, healthy, idleSeen,
                   reloads, notApp>>

\* app.go 96: startup takes the write lock
StartupLock ==
    /\ gpc[Starter] = "startup"
    /\ CanLock(mu)
    /\ mu' = Lock(mu, Starter)
    /\ gpc' = [gpc EXCEPT ![Starter] = "startup:97"]
    /\ UNCHANGED <<gret, ctxState, age, idle, tick, enableLogs, healthy, idleSeen,
                   reloads, notApp>>

\* app.go 97-100: a.ctx, a.cancel = context.WithCancel(ctx), Unlock, and the
\* call of updateLastActive
StartupSetCtx ==
    /\ gpc[Starter] = "startup:97"
    /\ ctxState' = "live"
    /\ mu' = Unlock(mu, Starter)
    /\ CallFn(Starter, "updateLastActive", "startup:101")
    /\ UNCHANGED <<age, idle, tick, enableLogs, healthy, idleSeen, reloads, notApp>>

\* app.go 101: a.logToFile("Application started")
StartupLog ==
    /\ gpc[Starter] = "startup:101"
    /\ CallFn(Starter, "logToFile", "startup:105")
    /\ UNCHANGED <<mu, ctxState, age, idle, tick, enableLogs, healthy, idleSeen,
                   reloads, notApp>>

\* app.go 105, 111: go a.healthCheck(), whose ticker starts; startup returns
StartHealth ==
    /\ gpc[Starter] = "startup:105"
    /\ gpc' = [gpc EXCEPT ![Starter] = "done", ![Health] = "select"]
    /\ tick' = FALSE
    /\ UNCHANGED <<mu, gret, ctxState, age, idle, enableLogs, healthy, idleSeen,
                   reloads, notApp>>

\* app.go 130, main.go 295: the runtime calls shutdown, after startup has
\* returned
ShutdownCall ==
    /\ gpc[Stopper] = "new"
    /\ gpc[Starter] = "done"
    /\ gpc' = [gpc EXCEPT ![Stopper] = "shutdown"]
    /\ UNCHANGED <<mu, gret, ctxState, age, idle, tick, enableLogs, healthy, idleSeen,
                   reloads, notApp>>

\* app.go 131: shutdown takes the write lock
ShutdownLock ==
    /\ gpc[Stopper] = "shutdown"
    /\ CanLock(mu)
    /\ mu' = Lock(mu, Stopper)
    /\ gpc' = [gpc EXCEPT ![Stopper] = "shutdown:132"]
    /\ UNCHANGED <<gret, ctxState, age, idle, tick, enableLogs, healthy, idleSeen,
                   reloads, notApp>>

\* app.go 132-137: cancel() if it is set, Unlock, and the call of logToFile
ShutdownCancel ==
    /\ gpc[Stopper] = "shutdown:132"
    /\ ctxState' = (IF ctxState # "unset" THEN "cancelled" ELSE ctxState)
    /\ mu' = Unlock(mu, Stopper)
    /\ CallFn(Stopper, "logToFile", "done")
    /\ UNCHANGED <<age, idle, tick, enableLogs, healthy, idleSeen, reloads, notApp>>

\* app.go 116-117: the select receives from a.ctx.Done() and healthCheck returns
HealthDone ==
    /\ gpc[Health] = "select"
    /\ ctxDone(ctxState)
    /\ gpc' = [gpc EXCEPT ![Health] = "done"]
    /\ UNCHANGED <<mu, gret, ctxState, age, idle, tick, enableLogs, healthy, idleSeen,
                   reloads, notApp>>

\* app.go 118-119: the select receives from ticker.C and calls checkHealth
HealthTick ==
    /\ gpc[Health] = "select"
    /\ tick
    /\ tick' = FALSE
    /\ CallFn(Health, "checkHealth", "healthCheck:119")
    /\ UNCHANGED <<mu, ctxState, age, idle, enableLogs, healthy, idleSeen, reloads,
                   notApp>>

\* app.go 119-120: checkHealth returned false, the failure is logged; the
\* value checkHealth returned is used up
HealthFailed ==
    /\ gpc[Health] = "healthCheck:119"
    /\ ~healthy
    /\ healthy' = TRUE
    /\ idleSeen' = 0
    /\ CallFn(Health, "logToFile", "healthCheck:121")
    /\ UNCHANGED <<mu, ctxState, age, idle, tick, enableLogs, reloads, notApp>>

\* app.go 121, 123: runtime.WindowReload(a.ctx), then updateLastActive
HealthReload ==
    /\ gpc[Health] = "healthCheck:121"
    /\ reloads' = (IF reloads < MaxReloads THEN reloads + 1 ELSE reloads)
    /\ CallFn(Health, "updateLastActive", "select")
    /\ UNCHANGED <<mu, ctxState, age, idle, tick, enableLogs, healthy, idleSeen,
                   notApp>>

\* app.go 119, 123: checkHealth returned true; updateLastActive, and the loop
\* goes back to the select
HealthPassed ==
    /\ gpc[Health] = "healthCheck:119"
    /\ healthy
    /\ healthy' = TRUE
    /\ idleSeen' = 0
    /\ CallFn(Health, "updateLastActive", "select")
    /\ UNCHANGED <<mu, ctxState, age, idle, tick, enableLogs, reloads, notApp>>

\* app.go 184-185: a bound method, callable once startup has returned, calls
\* executeNvmCommand, which calls updateLastActive first
CommandStartBy(g) ==
    /\ gpc[g] = "new"
    /\ gpc[Starter] = "done"
    /\ CallFn(g, "updateLastActive", "executeNvmCommand:201")
    /\ UNCHANGED <<mu, ctxState, age, idle, tick, enableLogs, healthy, idleSeen,
                   reloads, notApp>>

CommandStart == \E g \in Callers : CommandStartBy(g)

\* app.go 188-207: the tool runs; its failure is logged; executeNvmCommand
\* returns
CommandRunBy(g) ==
    \E failed \in BOOLEAN :
        /\ gpc[g] = "executeNvmCommand:201"
        /\ IF failed
              THEN CallFn(g, "logToFile", "done")
              ELSE gpc' = [gpc EXCEPT ![g] = "done"] /\ gret' = gret
        /\ UNCHANGED <<mu, ctxState, age, idle, tick, enableLogs, healthy, idleSeen,
                       reloads, notApp>>

CommandRun == \E g \in Callers : CommandRunBy(g)

\* a minute passes: lastActive and the last tool command are a minute older
\* and, app.go 111, the ticker of the health check has a tick to deliver
MinutePasses ==
    /\ age' = (IF age < MaxMinutes THEN age + 1 ELSE age)
    /\ idle' = (IF idle < MaxMinutes THEN idle + 1 ELSE idle)
    /\ tick' = TRUE
    /\ UNCHANGED <<mu, gpc, gret, ctxState, enableLogs, healthy, idleSeen, reloads,
                   notApp>>

NextApp ==
    \/ UpdateLock
    \/ UpdateBody
    \/ CheckRLock
    \/ CheckBody
    \/ LogCheck
    \/ LogLock
    \/ LogBody
    \/ StartupCall
    \/ StartupLock
    \/ StartupSetCtx
    \/ StartupLog
    \/ StartHealth
    \/ ShutdownCall
    \/ ShutdownLock
    \/ ShutdownCancel
    \/ HealthDone
    \/ HealthTick
    \/ HealthFailed
    \/ HealthReload
    \/ HealthPassed
    \/ CommandStart
    \/ CommandRun
    \/ MinutePasses

SpecApp == InitApp /\ [][NextApp]_vars

\* goroutine g obtains a.mu
Acquire(g) ==
    \/ UpdateLockBy(g)
    \/ LogLockBy(g)
    \/ g = Health /\ CheckRLock
    \/ g = Starter /\ StartupLock
    \/ g = Stopper /\ ShutdownLock

\* a step of goroutine g that waits for nothing: the scheduler runs it, the
\* external tool ends, OnStartup is called
Proceed(g) ==
    \/ UpdateBodyBy(g)
    \/ LogCheckBy(g)
    \/ LogBodyBy(g)
    \/ g = Health /\ (CheckBody \/ HealthFailed \/ HealthReload \/ HealthPassed)
    \/ g = Starter /\ (StartupCall \/ StartupSetCtx \/ StartupLog \/ StartHealth)
    \/ g = Stopper /\ ShutdownCancel
    \/ g \in Callers /\ CommandRunBy(g)

\* the scheduler runs every goroutine that can proceed; sync.RWMutex hands
\* the lock to a goroutine that has waited (starvation mode), and a select
\* with a closed Done channel chooses among its ready cases at random, so the
\* Done case is not passed over forever. When shutdown is called, when a tool
\* command is asked for and how time passes is left to the environment.
SpecAppLive ==
    /\ SpecApp
    /\ \A g \in Goroutines : WF_vars(Proceed(g)) /\ SF_vars(Acquire(g))
    /\ SF_vars(HealthDone)

---------------------------------------------------------------------------
(* Vocabulary of the properties *)

Finished == pc \in {"returned", "settled", "panicked"}

InstalledQuery == op = "GetInstalledNodeVersions"
AvailableQuery == op = "GetAvailableNodeVersions"

\* the bound method returned a list and a nil error
ReturnedList == pc \in {"returned", "settled"} /\ ret.kind = "return" /\ ret.err = NilErr

\* a direct GetInstalledNodeVersions call whose `nvm ls` reported no error
InstalledParsed == InstalledQuery /\ Finished /\ ret.err = NilErr

RemoteFailed == http.kind \in RemoteFailures

\* the trimmed lines of a text
TrimmedLines(text) ==
    LET ls == Split(text, Newline) IN [i \in 1..Len(ls) |-> TrimSpace(ls[i])]

IsKeptInstalledLine(line) == ~IsNoiseLine(line)

\* the lines of an installed listing that are neither blank nor noise
KeptInstalledLines(text) == SelectSeq(TrimmedLines(text), IsKeptInstalledLine)

StartsWithMarker(line) == line # <<>> /\ line[1] = "*"

Count(seq, P(_)) == Cardinality({i \in 1..Len(seq) : P(seq[i])})

IsCurrentRecord(r) == r.IsCurrent

Versions(entries) == [i \in 1..Len(entries) |-> entries[i].Version]

IsKeptAvailableLine(line) == ~IsSkippedLine(line)

\* the lines of an available listing the text loop reads
KeptAvailableLines(text) == SelectSeq(TrimmedLines(text), IsKeptAvailableLine)

\* the text path ran to its end and returned its list
TextPathReturned == AvailableQuery /\ ReturnedList /\ annotated = "text"

\* the matches of every kept line, one line after the other
MatchesInLineOrder(text) ==
    LET kept == KeptAvailableLines(text)
    IN  Flatten([k \in 1..Len(kept) |-> FindAllString(kept[k])])

\* C1: every entry of a list returned by GetAvailableNodeVersions, from the
\* catalog or from the text, has Status "Installed" exactly when its Version is
\* the Version of a record GetInstalledNodeVersions gave during that call, and
\* "Not Installed" otherwise.
C1_StatusIffInstalled ==
    (AvailableQuery /\ ReturnedList) =>
        \A k \in 1..Len(ret.versions.elems) :
            LET e == ret.versions.elems[k]
                isInstalled == \E j \in 1..Len(installedRet.versions.elems) :
                                   installedRet.versions.elems[j].Version = e.Version
            IN  /\ e.Status \in {"Installed", "Not Installed"}
                /\ e.Status = "Installed" <=> isInstalled

\* a text-path list holding an installed and a not installed version
C1_Witness ==
    /\ AvailableQuery /\ ReturnedList /\ annotated = "text"
    /\ \E k \in 1..Len(ret.versions.elems) : ret.versions.elems[k].Status = "Installed"
    /\ \E k \in 1..Len(ret.versions.elems) : ret.versions.elems[k].Status = "Not Installed"

\* C2: after any remote failure (GET error, status not 200, body unreadable,
\* body not a JSON array) the catalog annotation never runs, `nvm ls available`
\* is run right after the GET, and when the tool commands succeed the text-path
\* list is returned with a nil error; an error is returned only when a tool
\* command failed.
C2_RemoteFailureFallsBack ==
    (AvailableQuery /\ RemoteFailed) =>
        /\ annotated # "catalog"
        /\ pc # "GA_lsAvailable" =>
               Len(calls) >= 2 /\ calls[1] = "GET index.json"
                               /\ calls[2] = "nvm ls available"
        /\ (Finished /\ installedRet.kind = "return" /\ installedRet.err = NilErr) =>
               /\ ret.kind = "return" /\ ret.err = NilErr
               /\ annotated = "text"
               /\ Versions(ret.versions.elems) = MatchesInLineOrder(availText)
               /\ \A k \in 1..Len(ret.versions.elems) :
                      ret.versions.elems[k].NpmVersion = Unknown
        /\ (Finished /\ ret.err # NilErr) => ret.err[Len(ret.err)] = ExitStatus1[1]

\* the body did not parse and the text path returned a non-empty list
C2_Witness ==
    /\ AvailableQuery /\ http.kind = "parseError" /\ pc = "settled"
    /\ ret.err = NilErr /\ annotated = "text" /\ Len(ret.versions.elems) > 0
    /\ result = <<>>

\* C3: GetInstalledNodeVersions never panics, whatever the tool printed: a
\* malformed or marker-only line is skipped.
C3_NeverPanics == InstalledQuery => (pc # "panicked" /\ ret.kind # "panic")

\* C4: every record GetInstalledNodeVersions returns has a Version that is a
\* non-empty token without white space that does not begin with the marker "*".
C4_VersionIsCleanToken ==
    (InstalledQuery /\ ReturnedList) =>
        \A k \in 1..Len(ret.versions.elems) :
            LET v == ret.versions.elems[k].Version
            IN  /\ v # <<>>
                /\ \A i \in 1..Len(v) : ~IsSpace(v[i])
                /\ v[1] # "*"

\* C5 as stated: at most one record of a result has IsCurrent = true, for
\* every tool output.
C5_AtMostOneCurrent ==
    (InstalledQuery /\ ReturnedList) => Count(ret.versions.elems, IsCurrentRecord) <= 1

IsKeptMarkerLine(line) == IsKeptInstalledLine(line) /\ StartsWithMarker(line)

\* C5 amended: the records with IsCurrent = true are as many as the kept lines
\* (not blank, not noise) that start with the marker "*"; so there is at most
\* one when at most one such line exists.
C5_CurrentPerMarkerLine ==
    (InstalledQuery /\ ReturnedList) =>
        Count(ret.versions.elems, IsCurrentRecord)
            = Count(TrimmedLines(lsText), IsKeptMarkerLine)

\* two marker lines gave two current records
C5_Witness ==
    /\ InstalledQuery /\ ReturnedList
    /\ Count(TrimmedLines(lsText), IsKeptMarkerLine) = 2
    /\ Count(ret.versions.elems, IsCurrentRecord) = 2

\* C6: when at most one line of the listing starts, after trimming, with "*",
\* at most one record has IsCurrent = true, and it is the record made from
\* that line.
C6_OneMarkerOneCurrent ==
    (InstalledQuery /\ ReturnedList
        /\ Count(TrimmedLines(lsText), StartsWithMarker) <= 1) =>
        /\ Count(ret.versions.elems, IsCurrentRecord) <= 1
        /\ Len(ret.versions.elems) = Len(KeptInstalledLines(lsText))
        /\ \A k \in 1..Len(ret.versions.elems) :
               ret.versions.elems[k].IsCurrent =>
                   StartsWithMarker(KeptInstalledLines(lsText)[k])

\* a plain line, then the one marker line, then another plain line
C6_Witness ==
    /\ InstalledQuery /\ ReturnedList
    /\ Count(TrimmedLines(lsText), StartsWithMarker) = 1
    /\ Len(ret.versions.elems) >= 2
    /\ ~ret.versions.elems[1].IsCurrent
    /\ ret.versions.elems[2].IsCurrent

\* the version token of a kept line: the line after its leading "*", if any,
\* is dropped, cut at the first white space
RestOfLine(line) == TrimSpace(IF StartsWithMarker(line) THEN Tail(line) ELSE line)

HasToken(line) == RestOfLine(line) # <<>>

FirstToken(line) ==
    LET r == RestOfLine(line)
        cut == {i \in 1..Len(r) : IsSpace(r[i])}
    IN  IF cut = {} THEN r
        ELSE SubSeq(r, 1, (CHOOSE i \in cut : \A j \in cut : i <= j) - 1)

\* the records of the listing as C7 gives them
RecordsOfLines(kept) ==
    [k \in 1..Len(kept) |->
        [Version |-> FirstToken(kept[k]), IsCurrent |-> StartsWithMarker(kept[k])]]

\* [{18.16.0, true}, {16.20.0, false}]
ScenarioRecords ==
    <<[Version |-> V18_16_0, IsCurrent |-> TRUE],
      [Version |-> V16_20_0, IsCurrent |-> FALSE]>>

\* C7: GetInstalledNodeVersions returns one record per line that is not blank
\* and not noise, in input order, with Version the first token after an
\* optional leading "*" and IsCurrent true exactly for the lines with that "*".
C7_OneRecordPerKeptLine ==
    InstalledParsed =>
        /\ ret.kind = "return"
        /\ \A k \in 1..Len(KeptInstalledLines(lsText)) :
               HasToken(KeptInstalledLines(lsText)[k])
        /\ ret.versions.elems = RecordsOfLines(KeptInstalledLines(lsText))
        /\ lsText = ScenarioLs => ret.versions.elems = ScenarioRecords

\* what holds of the records whenever the call does return
C7_WhenReturned ==
    (InstalledQuery /\ ReturnedList) =>
        /\ ret.versions.elems = RecordsOfLines(KeptInstalledLines(lsText))
        /\ lsText = ScenarioLs => ret.versions.elems = ScenarioRecords

\* C8: when `nvm ls` succeeds with a text of blank and noise lines only, the
\* query returns an empty sequence and no error, and fetchInstalledVersions
\* reports no error either.
C8_EmptyListingIsNoError ==
    (InstalledQuery /\ pc = "settled" /\ calls = <<"nvm ls">>
        /\ ret.err = NilErr /\ KeptInstalledLines(lsText) = <<>>) =>
        /\ ret.versions.elems = <<>>
        /\ result = <<>>
        /\ installedVersions = <<>>

\* [{14.17.0, Not Installed, unknown}, {16.0.0, Installed, unknown}]
ScenarioEntries ==
    <<[Version |-> V14_17_0, Status |-> "Not Installed", NpmVersion |-> Unknown],
      [Version |-> V16_0_0, Status |-> "Installed", NpmVersion |-> Unknown]>>

\* C9: the text path returns one entry per matched version token, ordered by
\* line and then by position in the line, each with NpmVersion "unknown"; the
\* scenario text with installed set {16.0.0} gives the two scenario entries.
C9_TextPathOneEntryPerMatch ==
    TextPathReturned =>
        /\ Versions(ret.versions.elems) = MatchesInLineOrder(availText)
        /\ \A k \in 1..Len(ret.versions.elems) :
               ret.versions.elems[k].NpmVersion = Unknown
        /\ (availText = ScenarioAvail
              /\ Versions(installedRet.versions.elems) = <<V16_0_0>>) =>
               ret.versions.elems = ScenarioEntries

\* the two rows of the table, read row by row and left to right
C9_Witness ==
    /\ TextPathReturned
    /\ availText = TableAvail
    /\ Versions(ret.versions.elems) = <<V16_0_0, V14_17_0, V18_16_0, V16_20_0>>

\* t is digits "." digits "." digits
IsVersionText(t) ==
    LET dots == {p \in 1..Len(t) : t[p] = "."}
    IN  /\ Cardinality(dots) = 2
        /\ \A p \in 1..Len(t) : t[p] \in Digits \cup {"."}
        /\ \A p \in dots : p > 1 /\ p < Len(t) /\ (p + 1) \notin dots

NotWordAt(s, k) == k < 1 \/ k > Len(s) \/ s[k] \notin WordChars

\* the substrings <<first, last>> of the line that match the pattern; with
\* anchored, only those with no word character on either side
PatternOccurrences(line, anchored) ==
    {c \in (1..Len(line)) \X (1..Len(line)) :
        /\ c[1] <= c[2]
        /\ IsVersionText(SubSeq(line, c[1], c[2]))
        /\ anchored => NotWordAt(line, c[1] - 1) /\ NotWordAt(line, c[2] + 1)}

\* leftmost, longest at that start, then on from the end of the match
RECURSIVE LeftmostFrom(_, _, _)
LeftmostFrom(line, occ, from) ==
    LET left == {c \in occ : c[1] >= from}
        first == CHOOSE c \in left :
                     \A d \in left : c[1] < d[1] \/ (c[1] = d[1] /\ c[2] >= d[2])
    IN  IF left = {} THEN <<>>
        ELSE <<SubSeq(line, first[1], first[2])>> \o LeftmostFrom(line, occ, first[2] + 1)

ExtractedVersions(text, anchored) ==
    LET kept == KeptAvailableLines(text)
    IN  Flatten([k \in 1..Len(kept) |->
                    LeftmostFrom(kept[k], PatternOccurrences(kept[k], anchored), 1)])

\* C10 as stated: the versions extracted from the kept lines are the leftmost
\* non-overlapping matches of \d+\.\d+\.\d+ with no word-boundary anchors, so
\* "v14.17.0" and "14.17.0abc" each contribute 14.17.0.
C10_UnanchoredPattern ==
    TextPathReturned =>
        Versions(ret.versions.elems) = ExtractedVersions(availText, FALSE)

\* C10 amended: the versions extracted are the leftmost non-overlapping matches
\* of \b\d+\.\d+\.\d+\b: a match has no letter, digit or underscore next to it
\* on either side, so "v14.17.0" and "14.17.0abc" contribute nothing while a
\* bare "14.17.0" contributes 14.17.0.
C10_AnchoredPattern ==
    TextPathReturned =>
        /\ Versions(ret.versions.elems) = ExtractedVersions(availText, TRUE)
        /\ availText = AffixAvail => Versions(ret.versions.elems) = <<V16_0_0>>

\* "v14.17.0 14.17.0abc 16.0.0" gave 16.0.0 alone
C10_Witness ==
    /\ TextPathReturned
    /\ availText = AffixAvail
    /\ Versions(ret.versions.elems) = <<V16_0_0>>


\* the catalog path ran to its end and returned its list
CatalogPathReturned == AvailableQuery /\ ReturnedList /\ annotated = "catalog"

\* C11: the catalog path returns one entry per record of the parsed array, in
\* the order of the array, Version and NpmVersion being the record's version
\* and npm fields unchanged.
C11_CatalogOneEntryPerRecord ==
    CatalogPathReturned =>
        /\ Len(ret.versions.elems) = Len(http.catalog)
        /\ \A k \in 1..Len(http.catalog) :
               /\ ret.versions.elems[k].Version = http.catalog[k].version
               /\ ret.versions.elems[k].NpmVersion = http.catalog[k].npm

\* two records with different versions, the first with an npm version
C11_Witness ==
    /\ CatalogPathReturned
    /\ Len(ret.versions.elems) = 2
    /\ ret.versions.elems[1].Version # ret.versions.elems[2].Version
    /\ ret.versions.elems[1].NpmVersion = Npm8
    /\ ret.versions.elems[2].NpmVersion = <<>>

Occurrences(seq, x) == Cardinality({i \in 1..Len(seq) : seq[i] = x})

Range(seq) == {seq[i] : i \in 1..Len(seq)}

NoDuplicates(seq) == \A i, j \in 1..Len(seq) : i # j => seq[i] # seq[j]

\* as many of each, whatever the order
SameOccurrences(s, t) ==
    /\ Range(s) = Range(t)
    /\ \A x \in Range(s) : Occurrences(s, x) = Occurrences(t, x)

\* the version strings the input of the finished query names, one per
\* matched token, catalog record or kept line
InputVersions ==
    IF InstalledQuery THEN Versions(RecordsOfLines(KeptInstalledLines(lsText)))
    ELSE IF annotated = "catalog"
         THEN [k \in 1..Len(http.catalog) |-> http.catalog[k].version]
         ELSE ExtractedVersions(availText, TRUE)

\* C12 as stated: no two entries of one GetAvailableNodeVersions result and no
\* two records of one GetInstalledNodeVersions result carry the same Version.
C12_NoDuplicateVersions ==
    ((InstalledQuery \/ AvailableQuery) /\ ReturnedList) =>
        NoDuplicates(Versions(ret.versions.elems))

\* C12 amended: nothing is deduplicated. A result carries every Version as
\* often as the input names it (matched tokens of the kept lines, records of
\* the catalog, kept lines of the installed listing), so no two entries carry
\* the same Version exactly when the input names no version twice.
C12_DuplicatesAsInInput ==
    ((InstalledQuery \/ AvailableQuery) /\ ReturnedList) =>
        /\ SameOccurrences(Versions(ret.versions.elems), InputVersions)
        /\ NoDuplicates(Versions(ret.versions.elems)) <=> NoDuplicates(InputVersions)

\* one line of the available listing names a version twice, and so does the result
C12_Witness ==
    /\ TextPathReturned
    /\ Len(KeptAvailableLines(availText)) = 1
    /\ Len(ret.versions.elems) = 2
    /\ ret.versions.elems[1].Version = ret.versions.elems[2].Version


\* a fetch of the UI settled and stored the sorted list
StoredList ==
    /\ pc = "settled"
    /\ ret.err = NilErr
    /\ ~ret.versions.isNil

\* the list the sort was given and the list the UI holds after it
GivenList == ret.versions.elems

HeldList == IF InstalledQuery THEN installedVersions ELSE availableVersions

\* (major, minor, patch) of a well-formed "X.Y.Z"
TripleOf(t) ==
    LET p == Split(t, <<".">>)
    IN  <<DecimalValue(p[1], 0), DecimalValue(p[2], 0), DecimalValue(p[3], 0)>>

\* semantic version precedence: x is not older than y
NotOlder(x, y) ==
    \/ x[1] > y[1]
    \/ x[1] = y[1] /\ x[2] > y[2]
    \/ x[1] = y[1] /\ x[2] = y[2] /\ x[3] >= y[3]

WellFormedOf(names) == SelectSeq(names, IsVersionText)

Descending(names) ==
    \A i, j \in 1..Len(names) : i < j => NotOlder(TripleOf(names[i]), TripleOf(names[j]))

AllWellFormed(list) == \A i \in 1..Len(list) : IsVersionText(list[i].Version)

Sign(n) == IF n < 0 THEN 0 - 1 ELSE IF n > 0 THEN 1 ELSE 0

\* C13: a list whose Version strings are all well-formed "X.Y.Z" is held,
\* after the sort, with the same entries in descending order of major, then
\* minor, then patch compared as integers; over such a list the comparator
\* yields numbers, is antisymmetric and transitive; and the listing
\* 14.17.0, 16.0.0, 14.2.1 is held as 16.0.0, 14.17.0, 14.2.1.
C13_WellFormedSortedDescending ==
    (StoredList /\ AllWellFormed(GivenList)) =>
        /\ SameOccurrences(HeldList, GivenList)
        /\ Descending(Versions(HeldList))
        /\ \A a, b \in Range(GivenList) :
               /\ compareVersions(a, b).k = "num"
               /\ Sign(SortCompare(a, b)) = 0 - Sign(SortCompare(b, a))
        /\ \A a, b, c \in Range(GivenList) :
               (SortCompare(a, b) <= 0 /\ SortCompare(b, c) <= 0) => SortCompare(a, c) <= 0
        /\ Versions(GivenList) = <<V14_17_0, V16_0_0, V14_2_1>>
               => Versions(HeldList) = <<V16_0_0, V14_17_0, V14_2_1>>

\* the listing of the scenario was sorted
C13_Witness ==
    /\ StoredList
    /\ InstalledQuery
    /\ Versions(GivenList) = <<V14_17_0, V16_0_0, V14_2_1>>
    /\ Versions(installedVersions) = <<V16_0_0, V14_17_0, V14_2_1>>

\* C14: a list with a Version that is not three dot-separated integers is
\* sorted by a comparator that is still consistent over the whole list, and
\* its well-formed entries are held in descending order among themselves.
C14_MalformedKeepsOrder ==
    (StoredList /\ ~AllWellFormed(GivenList)) =>
        /\ SameOccurrences(HeldList, GivenList)
        /\ ConsistentComparator(GivenList)
        /\ Descending(WellFormedOf(Versions(HeldList)))


\* a bound call returned to the UI
Returned == pc \in {"returned", "settled"}

ActionCall == op \in ActionMethods

FailedRuns == SelectSeq(runs, LAMBDA r : r.err # NilErr)

\* what the caller is told: the message of an action, the error of a query
Reported == IF ActionCall THEN message ELSE ret.err

\* C15 as stated: when a run of the external tool fails, what the bound method
\* reports to its caller (the message of InstallNodeVersion,
\* UninstallNodeVersion and SwitchNodeVersion, the error of
\* GetInstalledNodeVersions and GetAvailableNodeVersions) carries the
\* combined output of that run.
C15_FailureCarriesOutput ==
    (Returned /\ FailedRuns # <<>>) =>
        \A k \in 1..Len(FailedRuns) : Contains(Reported, FailedRuns[k].output)

RunsOf(args) == SelectSeq(runs, LAMBDA r : r.args = args)

\* C16: a returned InstallNodeVersion, UninstallNodeVersion or
\* SwitchNodeVersion has run the tool exactly once, with the arguments [install
\* | uninstall | use, version], and its message is the "Successfully ..." one
\* exactly when that run reported no error and the "Error ..." one otherwise;
\* a list query has run `ls` at most once and `ls available` at most once,
\* whatever the runs reported.
C16_NoRetry ==
    /\ (ActionCall /\ pc = "ACT_run") => runs = <<>>
    /\ (ActionCall /\ Returned) =>
           /\ Len(runs) = 1
           /\ runs[1].args = <<Verb(op), argVersion>>
           /\ calls = <<"nvm " \o Verb(op)>>
           /\ message = <<SuccessText(op)>> \o argVersion <=> runs[1].err = NilErr
           /\ HasPrefix(message, <<ErrorText(op)>> \o argVersion) <=> runs[1].err # NilErr
    /\ (InstalledQuery \/ AvailableQuery) =>
           /\ \A k \in 1..Len(runs) : runs[k].args \in {<<"ls">>, <<"ls", "available">>}
           /\ Len(RunsOf(<<"ls">>)) <= 1
           /\ Len(RunsOf(<<"ls", "available">>)) <= 1

\* a failed install has returned its message after one run
C16_Witness ==
    /\ op = "InstallNodeVersion"
    /\ pc = "settled"
    /\ Len(runs) = 1
    /\ runs[1].err # NilErr
    /\ result = <<"Error installing Node.js ">> \o V16_0_0 \o <<": ", "E", "R", "R">>


\* a line of the available listing that carries a version token
IsDataLine(line) == FindAllString(line) # <<>>

\* the matches of every line, one line after the other
MatchesOfAllLines(text) ==
    LET ls == TrimmedLines(text)
    IN  Flatten([k \in 1..Len(ls) |-> FindAllString(ls[k])])

\* C20 as stated: on the text path no line that carries a version token is
\* discarded, even one that also contains a hyphen or the word CURRENT; the
\* result has the matches of every such line.
C20_DataLinesAreKept ==
    TextPathReturned =>
        /\ \A k \in 1..Len(TrimmedLines(availText)) :
               IsDataLine(TrimmedLines(availText)[k])
                   => IsKeptAvailableLine(TrimmedLines(availText)[k])
        /\ Versions(ret.versions.elems) = MatchesOfAllLines(availText)


\* the click handlers that have started and not run to their end
ActionsInFlight == {h \in 1..MaxClicks : handlers[h].at \notin {"new", "done"}}

\* the mount effect has fetched both lists and no action is in flight
SessionAtRest == handlers[Mount].at = "done" /\ ActionsInFlight = {}

HeldInstalled == {installedVersions[i].Version : i \in 1..Len(installedVersions)}

\* C17 as stated: in a session of installs, uninstalls, switches and
\* refreshes, some of which may fail, whenever no action is in flight every
\* catalog entry the UI holds has Status "Installed" exactly when its Version
\* is in the installed list the UI holds.
C17_HeldStatusMatchesHeldInstalled ==
    SessionAtRest =>
        \A i \in 1..Len(availableVersions) :
            availableVersions[i].Status = "Installed"
                <=> availableVersions[i].Version \in HeldInstalled

\* C18: at most one install, uninstall or switch handler is in flight at any
\* time, the loading state names its version exactly while it is, and the
\* backend runs the tool for at most one action at a time.
C18_ActionsSerialized ==
    /\ Cardinality(ActionsInFlight) <= 1
    /\ \A h \in ActionsInFlight :
           loadingVersion = Str(handlers[h].version) /\ loadingAction = handlers[h].kind
    /\ ActionsInFlight = {} <=> loadingVersion = Null
    /\ Cardinality({h \in HandlerIds : Awaiting(h, "action")}) <= 1

\* an action is in flight while the UI shows buttons for another click and a
\* click is still to come
C18_Witness ==
    /\ ActionsInFlight # {}
    /\ loadingVersion # Null
    /\ \E h \in 1..MaxClicks : handlers[h].at = "new"
    /\ InstallButtons \cup UseButtons \cup SwitchButtons # {}


\* GetAvailableNodeVersions has run to its end, by a return or a panic
AvailableEnded == AvailableQuery /\ Finished

\* C26 as stated: whenever http.Get gave a response (err == nil), whatever its
\* status, the response body is closed when GetAvailableNodeVersions ends.
C26_BodyClosedAtReturn ==
    (AvailableEnded /\ http.kind # "getError") => body = "closed"


\* C21 as stated: however often the quit item is clicked, no goroutine of the
\* click loop closes state.quitChan when it is already closed.
C21_QuitChanClosedOnce ==
    /\ process # "panicked"
    /\ \A i \in QuitClicks : quitters[i] # "panicked"


\* the await a click handler is at when it runs to its end
LastAwait(kind) == IF kind = "switch" THEN "installed" ELSE "available"

\* the handler h leaves the await of one bound call
Leaves(h, call) == handlers[h].at = call /\ handlers'[h].at # call

\* C22: once its bound calls have returned, whatever they returned, every
\* install, uninstall or switch handler resets the loading state:
\* loadingVersion not null leads to loadingVersion null and loadingAction ''.
\* A handler leaves an await only when the backend
\* has served that call, it awaits the action, then the installed list, then
\* (install and uninstall) the available list, and the step that ends it is
\* the step that resets the loading state.
C22_ActionEventuallyResets ==
    /\ (loadingVersion # Null) ~> (loadingVersion = Null /\ loadingAction = "")
    /\ [][\A h \in 1..MaxClicks :
             /\ Leaves(h, "action") =>
                    Resolved(h, "action") /\ handlers'[h].at = "installed"
             /\ Leaves(h, "installed") =>
                    /\ Resolved(h, "installed")
                    /\ handlers'[h].at =
                           (IF handlers[h].kind = "switch" THEN "done" ELSE "available")
             /\ Leaves(h, "available") =>
                    Resolved(h, "available") /\ handlers'[h].at = "done"
             /\ (h \in ActionsInFlight /\ handlers'[h].at = "done") =>
                    /\ handlers[h].at = LastAwait(handlers[h].kind)
                    /\ loadingVersion' = Null
                    /\ loadingAction' = ""]_vars

\* a click handler has run to its end although its refresh of the available
\* list failed, and the loading state is reset
C22_Witness ==
    /\ handlers[1].at = "done"
    /\ handlers[Mount].at = "done"
    /\ loadingVersion = Null
    /\ loadingAction = ""
    /\ result = <<"Error fetching available versions">>


---------------------------------------------------------------------------
(* The health check and a.mu *)

\* C23: a tick that comes after five minutes or more without a tool command
\* finds checkHealth() false (and the failure is then logged and the window
\* reloaded)
C23_InactivityDetected ==
    (gpc[Health] = "healthCheck:119" /\ idleSeen >= 5) => ~healthy

\* goroutine g holds a.mu, for writing or for reading
Holds(g) == mu.writer = g \/ g \in mu.readers

\* the places where a goroutine waits for a.mu
LockRequests == {"updateLastActive", "checkHealth", "logToFile:156", "startup", "shutdown"}

\* the places between an acquisition of a.mu and its release
LockedSections == {"updateLastActive:82", "checkHealth:90", "logToFile:159",
                   "startup:97", "shutdown:132"}

Waits(g) == gpc[g] \in LockRequests

\* C24: once shutdown has cancelled the context of a started App the health
\* check goroutine ends, and after it has taken the Done case it stays ended
\* and reloads no window
C24_HealthCheckStops ==
    /\ (ctxState = "cancelled") ~> (gpc[Health] = "done")
    /\ [][gpc[Health] = "done" => gpc'[Health] = "done" /\ reloads' = reloads]_vars

C24_Witness ==
    /\ gpc[Stopper] = "done"
    /\ gpc[Health] = "done"
    /\ reloads = 1

====
